---- MODULE Spec2Model ----
(***************************************************************************)
(* Model of src/app.py: compress_image (size policy + quality search) and  *)
(* the "Multiple Images" branch of main.                                   *)
(*                                                                         *)
(* Sizes.  The program works with floats in KB obtained as bytes / 1024.   *)
(* The model keeps every such quantity as an integer number of tenths of a *)
(* byte (1 KB = 10240 units), so that the policy factors 1.0, 0.6, 0.2,    *)
(* 0.1 are applied exactly.                                                *)
(*                                                                         *)
(* Encoder.  img.save(quality=q) is an external capability.  An encoder is *)
(* a record describing a total, deterministic size curve; SizeBytes gives  *)
(* the byte length of its output at a quality.                             *)
(***************************************************************************)
EXTENDS Integers, Sequences, FiniteSets, TLC

VARIABLES
    mode,               \* st.radio choice
    uploaded_files,     \* batch: sequence of BOOLEAN, TRUE = file can be opened
    idx,                \* batch: position of the for loop (1-based)
    compressed_images,  \* batch: list of <<file index, output>>
    zip_file,           \* batch: entries written to the zip / shown in preview
    error_shown,        \* st.error was called
    pc,                 \* control position
    original_size_kb,   \* argument of compress_image
    enc,                \* the encoder behind img.save for the current image
    target_size_kb,
    min_quality,
    max_quality,
    best_quality,
    best_output,
    best_size,
    saves,              \* qualities passed to img.save, in call order
    probed,             \* qualities encoded inside the while loop, in order
    met_target,         \* best_output was set when line 79 was evaluated
    result              \* value returned by compress_image

vars == <<mode, uploaded_files, idx, compressed_images, zip_file, error_shown,
          pc, original_size_kb, enc, target_size_kb, min_quality, max_quality,
          best_quality, best_output, best_size, saves, probed, met_target, result>>

batchVars == <<mode, uploaded_files, idx, compressed_images, zip_file, error_shown>>

-----------------------------------------------------------------------------
(* Bounds of the model *)

MaxDelta == 1
MaxSlope == 12
SmallKB == 10
LargeKB == 200
MaxFiles == 3

-----------------------------------------------------------------------------
(* Units *)

\* bytes / 1024, in tenths of a byte
KB(bytes) == bytes * 10

\* n kilobytes as a byte count
Bytes(n) == n * 1024

\* float('inf')
Inf == -1

\* best_output = None
None == [quality |-> 0, size |-> 0]

-----------------------------------------------------------------------------
(* The encoder: img.save(output, format='JPEG', quality=q, ...) *)

MinQ == 20
MaxQ == 85

Encoders ==
    [kind : {"step", "falling", "notch"}, a : (MinQ - 1)..(MaxQ + 1)]
        \cup [kind : {"linear"}, a : 1..MaxSlope]

SizeBytes(e, q) ==
    CASE e.kind = "step"    -> IF q <= e.a THEN Bytes(SmallKB) ELSE Bytes(LargeKB)
      [] e.kind = "falling" -> IF q <= e.a THEN Bytes(LargeKB) ELSE Bytes(SmallKB)
      [] e.kind = "notch"   -> IF q = e.a THEN Bytes(SmallKB) ELSE Bytes(LargeKB)
      [] e.kind = "linear"  -> (e.a * 1024 * q) \div 10

\* output.getvalue() after img.save at quality q
Encode(e, q) == [quality |-> q, size |-> SizeBytes(e, q)]

\* len(output.getvalue()) / 1024
CurrentSize(out) == KB(out.size)

-----------------------------------------------------------------------------
(* Size policy, lines 41-48 *)

\* first tier tested with < instead of <=
ComputeTarget_StrictFirstTier(orig) ==
    IF orig < KB(Bytes(50)) THEN (orig * 10) \div 10
    ELSE IF orig <= KB(Bytes(100)) THEN (orig * 6) \div 10
    ELSE IF orig <= KB(Bytes(500)) THEN (orig * 2) \div 10
    ELSE (orig * 1) \div 10

\* third tier tested with < instead of <=
ComputeTarget_StrictThirdTier(orig) ==
    IF orig <= KB(Bytes(50)) THEN (orig * 10) \div 10
    ELSE IF orig <= KB(Bytes(100)) THEN (orig * 6) \div 10
    ELSE IF orig < KB(Bytes(500)) THEN (orig * 2) \div 10
    ELSE (orig * 1) \div 10

ComputeTarget(orig) ==
    IF orig <= KB(Bytes(50)) THEN (orig * 10) \div 10
    ELSE IF orig <= KB(Bytes(100)) THEN (orig * 6) \div 10
    ELSE IF orig <= KB(Bytes(500)) THEN (orig * 2) \div 10
    ELSE (orig * 1) \div 10

-----------------------------------------------------------------------------
(* Pieces of the search loop *)

\* quality = (min_quality + max_quality) // 2
Mid(lo, hi) == (lo + hi) \div 2

\* the first fitting candidate is accepted
ExceedsSlack_FirstAccepted(cur, bs) ==
    IF bs = Inf THEN TRUE ELSE cur * 100 > bs * 95

\* current_size > best_size * 0.95, with best_size possibly float('inf')
ExceedsSlack(cur, bs) ==
    IF bs = Inf THEN FALSE ELSE cur * 100 > bs * 95

\* min_quality = quality
RaiseMin_NoIncrement(q) == q

\* min_quality = quality + 1
RaiseMin(q) == q + 1

\* max_quality = quality - 1
LowerMax(q) == q - 1

\* post-loop encode at max_quality
FallbackQuality_Max(lo, hi) == hi

\* quality of the post-loop encode (line 83)
FallbackQuality(lo, hi) == lo

\* not best_output
Falsy(out) == out.size = 0

-----------------------------------------------------------------------------
(* Inputs *)

OrigBytes ==
    {Bytes(b) + d : b \in {0, 30, 50, 100, 500, 600}, d \in 0..MaxDelta} \ {0}

BatchOrigBytes == {Bytes(30), Bytes(600)}

BatchEncoders == {[kind |-> "linear", a |-> 12], [kind |-> "step", a |-> 85]}

FileLists == UNION {[1..n -> BOOLEAN] : n \in 1..MaxFiles}

-----------------------------------------------------------------------------
(* compress_image *)

\* state of the locals before lines 41-55 have run
FreshLocals ==
    /\ target_size_kb' = 0
    /\ min_quality' = 0
    /\ max_quality' = 0
    /\ best_quality' = 0
    /\ best_output' = None
    /\ best_size' = 0
    /\ saves' = <<>>
    /\ probed' = <<>>
    /\ met_target' = FALSE
    /\ result' = None

\* lines 41-55: target size and initialisation of the search
Policy ==
    /\ pc = "policy"
    /\ target_size_kb' = ComputeTarget(original_size_kb)
    /\ min_quality' = MinQ
    /\ max_quality' = MaxQ
    /\ best_quality' = MaxQ
    /\ best_output' = None
    /\ best_size' = Inf
    /\ pc' = "search"
    /\ UNCHANGED <<original_size_kb, enc, saves, probed, met_target, result>>
    /\ UNCHANGED batchVars

\* lines 57-76: one iteration of the while loop
Probe ==
    /\ pc = "search"
    /\ min_quality <= max_quality
    /\ LET quality == Mid(min_quality, max_quality)
           output == Encode(enc, quality)
           current_size == CurrentSize(output)
       IN  /\ saves' = Append(saves, quality)
           /\ probed' = Append(probed, quality)
           /\ IF current_size <= target_size_kb
              THEN /\ IF ExceedsSlack(current_size, best_size)
                      THEN /\ best_output' = output
                           /\ best_size' = current_size
                           /\ best_quality' = quality
                      ELSE UNCHANGED <<best_output, best_size, best_quality>>
                   /\ min_quality' = RaiseMin(quality)
                   /\ UNCHANGED max_quality
              ELSE /\ max_quality' = LowerMax(quality)
                   /\ UNCHANGED <<min_quality, best_output, best_size, best_quality>>
    /\ UNCHANGED <<pc, original_size_kb, enc, target_size_kb, met_target, result>>
    /\ UNCHANGED batchVars

\* lines 78-88: loop exit, fallback encode, return
PostLoop ==
    /\ pc = "search"
    /\ ~(min_quality <= max_quality)
    /\ IF Falsy(best_output)
       THEN LET q == FallbackQuality(min_quality, max_quality)
            IN  /\ saves' = Append(saves, q)
                /\ best_output' = Encode(enc, q)
                /\ met_target' = FALSE
       ELSE /\ met_target' = TRUE
            /\ UNCHANGED <<saves, best_output>>
    /\ result' = best_output'
    /\ pc' = "done"
    /\ UNCHANGED <<original_size_kb, enc, target_size_kb, min_quality, max_quality,
                   best_quality, best_size, probed>>
    /\ UNCHANGED batchVars

-----------------------------------------------------------------------------
(* main, "Multiple Images" branch, lines 139-172 *)

\* lines 145-147: the file opens; compress_image is entered
OpenItem ==
    /\ pc = "main"
    /\ idx <= Len(uploaded_files)
    /\ uploaded_files[idx]
    /\ \E o \in BatchOrigBytes, e \in BatchEncoders :
          /\ original_size_kb' = KB(o)
          /\ enc' = e
    /\ FreshLocals
    /\ pc' = "policy"
    /\ UNCHANGED batchVars

\* line 145 raises; control leaves the for loop to the handler at 171-172
OpenFails ==
    /\ pc = "main"
    /\ idx <= Len(uploaded_files)
    /\ ~uploaded_files[idx]
    /\ error_shown' = TRUE
    /\ pc' = "error"
    /\ UNCHANGED <<mode, uploaded_files, idx, compressed_images, zip_file>>
    /\ UNCHANGED <<original_size_kb, enc, target_size_kb, min_quality, max_quality,
                   best_quality, best_output, best_size, saves, probed, met_target, result>>

\* line 148
AppendItem ==
    /\ pc = "done"
    /\ mode = "Multiple Images"
    /\ compressed_images' = Append(compressed_images, <<idx, result>>)
    /\ idx' = idx + 1
    /\ pc' = "main"
    /\ UNCHANGED <<mode, uploaded_files, zip_file, error_shown>>
    /\ UNCHANGED <<original_size_kb, enc, target_size_kb, min_quality, max_quality,
                   best_quality, best_output, best_size, saves, probed, met_target, result>>

\* lines 150-170: zip, download button and preview
Deliver ==
    /\ pc = "main"
    /\ idx > Len(uploaded_files)
    /\ zip_file' = compressed_images
    /\ pc' = "delivered"
    /\ UNCHANGED <<mode, uploaded_files, idx, compressed_images, error_shown>>
    /\ UNCHANGED <<original_size_kb, enc, target_size_kb, min_quality, max_quality,
                   best_quality, best_output, best_size, saves, probed, met_target, result>>

-----------------------------------------------------------------------------
(* Specifications *)

\* one call of compress_image (line 112) with arbitrary arguments
Init ==
    /\ mode = "Single Image"
    /\ uploaded_files = <<>>
    /\ idx = 0
    /\ compressed_images = <<>>
    /\ zip_file = <<>>
    /\ error_shown = FALSE
    /\ pc = "policy"
    /\ original_size_kb \in {KB(b) : b \in OrigBytes}
    /\ enc \in Encoders
    /\ target_size_kb = 0
    /\ min_quality = 0
    /\ max_quality = 0
    /\ best_quality = 0
    /\ best_output = None
    /\ best_size = 0
    /\ saves = <<>>
    /\ probed = <<>>
    /\ met_target = FALSE
    /\ result = None

Next == Policy \/ Probe \/ PostLoop

Spec == Init /\ [][Next]_vars

\* the loop is sequential code: it keeps running until it returns
FairSpec == Init /\ [][Next]_vars /\ WF_vars(Next)

\* "Compress All Images" pressed on a non-empty upload (lines 139-143)
BatchInit ==
    /\ mode = "Multiple Images"
    /\ uploaded_files \in FileLists
    /\ idx = 1
    /\ compressed_images = <<>>
    /\ zip_file = <<>>
    /\ error_shown = FALSE
    /\ pc = "main"
    /\ original_size_kb = 0
    /\ enc = [kind |-> "step", a |-> MaxQ]
    /\ target_size_kb = 0
    /\ min_quality = 0
    /\ max_quality = 0
    /\ best_quality = 0
    /\ best_output = None
    /\ best_size = 0
    /\ saves = <<>>
    /\ probed = <<>>
    /\ met_target = FALSE
    /\ result = None

BatchNext == OpenItem \/ OpenFails \/ Policy \/ Probe \/ PostLoop \/ AppendItem \/ Deliver

BatchSpec == BatchInit /\ [][BatchNext]_vars

-----------------------------------------------------------------------------
(* Vocabulary of the properties *)

\* an encode at quality q fits the target of the current call
Fits(q) == CurrentSize(Encode(enc, q)) <= target_size_kb

SomeProbeFits == \E i \in 1..Len(probed) : Fits(probed[i])

Monotone(e) == \A q \in MinQ..(MaxQ - 1) : SizeBytes(e, q) <= SizeBytes(e, q + 1)

FittingQualities == {q \in MinQ..MaxQ : Fits(q)}

HighestFitting == CHOOSE q \in FittingQualities : \A r \in FittingQualities : r <= q

Returned == pc = "done"

TargetKnown == pc \in {"search", "done"}

\* tier of the reference table of the size policy
Tier(orig) ==
    IF orig <= KB(51200) THEN 1
    ELSE IF orig <= KB(102400) THEN 2
    ELSE IF orig <= KB(512000) THEN 3
    ELSE 4

-----------------------------------------------------------------------------
(* Properties *)

\* C1: if some quality probed by the search loop fits the target, the call
\* ends with met_target = TRUE: the returned bytes are those of a fitting
\* probe of the loop and their size is at most the target.
C1_FittingProbeIsReturned ==
    (Returned /\ SomeProbeFits) =>
        /\ met_target
        /\ CurrentSize(result) <= target_size_kb
        /\ \E i \in 1..Len(probed) :
              result = Encode(enc, probed[i]) /\ Fits(probed[i])

\* C2: for a monotone encoder and a target that some quality in [20,85]
\* fits, the call returns the encoding at the highest fitting quality.
C2_HighestFittingReturned ==
    (Returned /\ Monotone(enc) /\ FittingQualities # {}) =>
        result = Encode(enc, HighestFitting)

\* C3: the quality at which the returned bytes were encoded lies in [20,85].
C3_QualityInRange ==
    Returned => result.quality \in MinQ..MaxQ

\* C4: one call invokes the encoder at most 7 times, loop probes and
\* post-loop encode together.
C4_AtMostSevenEncodes ==
    Len(saves) <= 7

\* C5: if no loop probe fits, the call still returns a buffer with
\* met_target = FALSE, produced by exactly one extra encode at the final
\* min_quality, and that quality is 20.
C5_NoFitFallsBackToMin ==
    (Returned /\ ~SomeProbeFits) =>
        /\ ~met_target
        /\ result.size > 0
        /\ Len(saves) = Len(probed) + 1
        /\ saves[Len(saves)] = min_quality
        /\ result = Encode(enc, min_quality)
        /\ min_quality = 20

C5_Witness ==
    Returned /\ ~SomeProbeFits /\ Len(probed) > 0 /\ result.quality = 20

C8_SearchTerminates ==
    /\ [][(pc = "search" /\ pc' = "search") =>
             (max_quality' - min_quality' < max_quality - min_quality)]_vars
    /\ [](Returned => (min_quality = max_quality + 1 /\ result.size > 0))
    /\ <>Returned

C8_Witness ==
    /\ Returned
    /\ ~Monotone(enc)
    /\ min_quality = max_quality + 1
    /\ Len(probed) = 7

\* C9: in Multiple Images mode an error on one file shows the message and
\* aborts only that file; every other file is compressed and delivered.
C9_ErrorAbortsOnlyItem ==
    (pc \in {"delivered", "error"} /\ \E i \in 1..Len(uploaded_files) : ~uploaded_files[i]) =>
        /\ error_shown
        /\ \A i \in 1..Len(uploaded_files) :
              uploaded_files[i] => \E k \in 1..Len(zip_file) : zip_file[k][1] = i

====
